---- MODULE Spec2Model ----
(***************************************************************************)
(* Model of the flicker stimulus-timing toolbox: src/src/flicker_core.py   *)
(* and the SSVEP experiment script run_flicker_experiment_ssvep.py.        *)
(*                                                                         *)
(* Python floats are modelled bit-exactly as IEEE-754 binary64 values: a   *)
(* 53-bit significand held in four 15-bit limbs and a binary exponent.     *)
(* True division rounds to nearest, ties to even, as CPython does; round() *)
(* rounds half to even.                                                    *)
(***************************************************************************)
EXTENDS Integers, Sequences, FiniteSets, TLC

(***************************************************************************)
(* Bounds of the model.                                                    *)
(***************************************************************************)
\* Largest refresh rate (Hz) drawn for REFRESH_RATE.
MaxRate == 9
\* REFRESH_RATE is drawn in steps of 2^-RateBits Hz (exactly representable).
RateBits == 1
\* DUTY_CYCLE is drawn in steps of 2^-DutyBits (exactly representable).
DutyBits == 2
\* Largest DURATION_S (whole seconds).
MaxDuration == 2
\* Largest frames_per_cycle of a direct call of generate_frame_pattern.
MaxCycle == 5
\* Largest total_frames of a direct call of generate_frame_pattern.
MaxTotal == 12
\* Largest n_stim of a direct call of calculate_m_sequences (one more than the 63 rotations).
MaxStim == 64

(***************************************************************************)
(* Unsigned multi-precision integers: <<l0, l1, l2, l3>>, least            *)
(* significant limb first, 15 bits per limb (60 bits in all).              *)
(***************************************************************************)
LimbBase == 2^15

BigOfInt(n) == <<n % LimbBase, (n \div LimbBase) % LimbBase, 0, 0>>

BigToInt(a) == a[1] + LimbBase * a[2]

BigLess(a, b) ==
  \/ a[4] < b[4]
  \/ a[4] = b[4] /\ a[3] < b[3]
  \/ a[4] = b[4] /\ a[3] = b[3] /\ a[2] < b[2]
  \/ a[4] = b[4] /\ a[3] = b[3] /\ a[2] = b[2] /\ a[1] < b[1]

\* limb i of a (1-based), zero outside 1..4
Limb(a, i) == IF i \in 1..4 THEN a[i] ELSE 0

\* a * 2^n, for a result below 2^60
BigShiftLeft(a, n) ==
  LET u == n \div 15
      b == n % 15
      L(i) == ((Limb(a, i - u) * 2^b) % LimbBase) + (Limb(a, i - u - 1) \div 2^(15 - b))
  IN  <<L(1), L(2), L(3), L(4)>>

\* a \div 2^n
BigShiftRight(a, n) ==
  LET u == n \div 15
      b == n % 15
      L(i) == (Limb(a, i + u) \div 2^b) + ((Limb(a, i + u + 1) % 2^b) * 2^(15 - b))
  IN  <<L(1), L(2), L(3), L(4)>>

BigDouble(a) ==
  <<(2 * a[1]) % LimbBase,
    ((2 * a[2]) % LimbBase) + (a[1] \div (LimbBase \div 2)),
    ((2 * a[3]) % LimbBase) + (a[2] \div (LimbBase \div 2)),
    ((2 * a[4]) % LimbBase) + (a[3] \div (LimbBase \div 2))>>

\* bit k of a (bit 0 is the least significant)
BigBit(a, k) == (Limb(a, k \div 15 + 1) \div 2^(k % 15)) % 2

\* a % 2^n = 0
BigLowZero(a, n) == a = BigShiftLeft(BigShiftRight(a, n), n)

\* number of bits of a limb value v, 0 <= v < 2^15
LimbLen(v) == CHOOSE k \in 0..15 : v < 2^k /\ (k = 0 \/ v >= 2^(k - 1))

\* number of bits of a
BigLen(a) ==
  IF a[4] > 0 THEN 45 + LimbLen(a[4])
  ELSE IF a[3] > 0 THEN 30 + LimbLen(a[3])
  ELSE IF a[2] > 0 THEN 15 + LimbLen(a[2])
  ELSE LimbLen(a[1])

BigIsOdd(a) == a[1] % 2 = 1

\* a - b for a >= b
BigSub(a, b) ==
  LET s1 == a[1] - b[1]
      b1 == IF s1 < 0 THEN 1 ELSE 0
      s2 == a[2] - b[2] - b1
      b2 == IF s2 < 0 THEN 1 ELSE 0
      s3 == a[3] - b[3] - b2
      b3 == IF s3 < 0 THEN 1 ELSE 0
      s4 == a[4] - b[4] - b3
  IN  <<s1 + b1 * LimbBase, s2 + b2 * LimbBase, s3 + b3 * LimbBase, s4>>

BigInc(a) ==
  LET s1 == a[1] + 1
      s2 == a[2] + s1 \div LimbBase
      s3 == a[3] + s2 \div LimbBase
      s4 == a[4] + s3 \div LimbBase
  IN  <<s1 % LimbBase, s2 % LimbBase, s3 % LimbBase, s4>>

(***************************************************************************)
(* binary64 values: [m |-> significand, e |-> exponent], value m * 2^e.    *)
(* A result of FDiv is normalised: 2^(MantBits-1) <= m < 2^MantBits.       *)
(***************************************************************************)
MantBits == 53

\* 2^k as a multi-precision integer, 0 <= k < 60
BigPow2(k) == BigShiftLeft(<<1, 0, 0, 0>>, k)

\* the exactly representable value n * 2^(-bits), n > 0
FloatOfDyadic(n, bits) == [m |-> BigOfInt(n), e |-> -bits]

FloatOfInt(n) == FloatOfDyadic(n, 0)

\* restoring long division: i more quotient bits of r / ym, s = <<q, r>>, r < ym
RECURSIVE LongDiv(_, _, _)
LongDiv(s, ym, i) ==
  IF i = 0 THEN s
  ELSE LET r2 == BigDouble(s[2])
       IN  IF BigLess(r2, ym)
           THEN LongDiv(<<BigDouble(s[1]), r2>>, ym, i - 1)
           ELSE LongDiv(<<BigInc(BigDouble(s[1])), BigSub(r2, ym)>>, ym, i - 1)

\* x / y for positive x, y: the quotient rounded to nearest, ties to even
FDiv(x, y) ==
  LET lx  == BigLen(x.m)
      ly  == BigLen(y.m)
      \* align the significands to the same bit length
      xa  == IF lx < ly THEN BigShiftLeft(x.m, ly - lx) ELSE x.m
      ym  == IF lx > ly THEN BigShiftLeft(y.m, lx - ly) ELSE y.m
      lo  == BigLess(xa, ym)
      \* ym <= xm < 2 * ym: the quotient's leading bit is 1
      xm  == IF lo THEN BigDouble(xa) ELSE xa
      k   == lx - ly - (IF lo THEN 1 ELSE 0)
      qr  == LongDiv(<<BigOfInt(1), BigSub(xm, ym)>>, ym, MantBits - 1)
      q   == qr[1]
      r2  == BigDouble(qr[2])
      rup == BigLess(ym, r2) \/ (r2 = ym /\ BigIsOdd(q))
      q1  == IF rup THEN BigInc(q) ELSE q
      e   == x.e - y.e + k - (MantBits - 1)
  IN  IF q1 = BigPow2(MantBits)
      THEN [m |-> BigPow2(MantBits - 1), e |-> e + 1]
      ELSE [m |-> q1, e |-> e]

\* whether the value is a whole number
FIsInteger(x) == x.e >= 0 \/ BigLowZero(x.m, -x.e)

\* int(round(x)) for 0 <= x < 2^30: round half to even
FRound(x) ==
  IF x.e >= 0 THEN BigToInt(x.m) * 2^x.e
  ELSE IF -x.e > MantBits THEN 0
  ELSE LET n == -x.e
           t == BigToInt(BigShiftRight(x.m, n))
           half == BigBit(x.m, n - 1) = 1
           rest == ~BigLowZero(x.m, n - 1)
       IN  IF half /\ (rest \/ t % 2 = 1) THEN t + 1 ELSE t

\* x < y for normalised positive x, y
FLess(x, y) == x.e < y.e \/ (x.e = y.e /\ BigLess(x.m, y.m))

\* a * n for a small n >= 0
BigMulSmall(a, n) ==
  LET s1 == a[1] * n
      s2 == a[2] * n + s1 \div LimbBase
      s3 == a[3] * n + s2 \div LimbBase
      s4 == a[4] * n + s3 \div LimbBase
  IN  <<s1 % LimbBase, s2 % LimbBase, s3 % LimbBase, s4>>

\* n * x for an integer n >= 1 and positive x: the product rounded to nearest, ties to even
FMulInt(n, x) ==
  LET p    == BigMulSmall(x.m, n)
      sh   == BigLen(p) - MantBits
      q    == BigShiftRight(p, sh)
      half == BigBit(p, sh - 1) = 1
      rest == ~BigLowZero(p, sh - 1)
      q1   == IF half /\ (rest \/ BigIsOdd(q)) THEN BigInc(q) ELSE q
  IN  IF sh <= 0 THEN [m |-> p, e |-> x.e]
      ELSE IF q1 = BigPow2(MantBits) THEN [m |-> BigPow2(MantBits - 1), e |-> x.e + sh + 1]
      ELSE [m |-> q1, e |-> x.e + sh]

\* math.ceil(x) for x > 0
FCeil(x) ==
  IF x.e >= 0 THEN BigToInt(x.m) * 2^x.e
  ELSE IF -x.e > MantBits THEN 1
  ELSE BigToInt(BigShiftRight(x.m, -x.e)) + (IF BigLowZero(x.m, -x.e) THEN 0 ELSE 1)

Min(a, b) == IF a < b THEN a ELSE b

Max(a, b) == IF a > b THEN a ELSE b

(***************************************************************************)
(* flicker_core.calculate_frequencies.  refresh_rate is r * 2^-RateBits.   *)
(* The result is [error |-> message, value |-> list]; error = "" on return.*)
(***************************************************************************)
Rate(r) == FloatOfDyadic(r, RateBits)

\* int(refresh_rate) for refresh_rate > 0: truncation
IntOfRate(r) == r \div 2^RateBits

\* list(range(lo, hi + 1))
RangeList(lo, hi) == [i \in 1..Max(hi - lo + 1, 0) |-> lo + i - 1]

\* s[:n] for n > 0
Prefix(s, n) == SubSeq(s, 1, Min(n, Len(s)))

Raise(msg) == [error |-> msg, value |-> <<>>]

Return(v) == [error |-> "", value |-> v]

\* faulty variant: range(min_frames_per_cycle, int(refresh_rate)), the last divisor left out
calculate_frequencies_short(r, min_frames_per_cycle, n_stim) ==
  IF ~(r > 0) THEN Raise("refresh_rate must be bigger than zero")
  ELSE IF ~(min_frames_per_cycle > 0) THEN Raise("min_frames_per_cycle must be bigger than zero")
  ELSE IF ~(n_stim > 0) THEN Raise("n_stim must be bigger than zero")
  ELSE IF ~(r - min_frames_per_cycle * 2^RateBits + 2^RateBits >= n_stim * 2^RateBits)
       THEN Raise("Too many stimuli provided")
  ELSE LET divisors == RangeList(min_frames_per_cycle, IntOfRate(r) - 1)
           stable_freqs == [i \in 1..Len(divisors) |-> FDiv(Rate(r), FloatOfInt(divisors[i]))]
       IN  Return(Prefix(stable_freqs, n_stim))

\* faulty variant: the range check of line 12 left out
calculate_frequencies_unchecked(r, min_frames_per_cycle, n_stim) ==
  IF ~(r > 0) THEN Raise("refresh_rate must be bigger than zero")
  ELSE IF ~(min_frames_per_cycle > 0) THEN Raise("min_frames_per_cycle must be bigger than zero")
  ELSE IF ~(n_stim > 0) THEN Raise("n_stim must be bigger than zero")
  ELSE LET divisors == RangeList(min_frames_per_cycle, IntOfRate(r))
           stable_freqs == [i \in 1..Len(divisors) |-> FDiv(Rate(r), FloatOfInt(divisors[i]))]
       IN  Return(Prefix(stable_freqs, n_stim))

calculate_frequencies(r, min_frames_per_cycle, n_stim) ==
  IF ~(r > 0) THEN Raise("refresh_rate must be bigger than zero")
  ELSE IF ~(min_frames_per_cycle > 0) THEN Raise("min_frames_per_cycle must be bigger than zero")
  ELSE IF ~(n_stim > 0) THEN Raise("n_stim must be bigger than zero")
  ELSE IF ~(r - min_frames_per_cycle * 2^RateBits + 2^RateBits >= n_stim * 2^RateBits)
       THEN Raise("Too many stimuli provided")
  ELSE LET divisors == RangeList(min_frames_per_cycle, IntOfRate(r))
           stable_freqs == [i \in 1..Len(divisors) |-> FDiv(Rate(r), FloatOfInt(divisors[i]))]
       IN  Return(Prefix(stable_freqs, n_stim))

(***************************************************************************)
(* flicker_core.calculate_cycle_params.  duty_cycle is k * 2^-DutyBits, so *)
(* frames_per_cycle * duty_cycle is exact.                                 *)
(***************************************************************************)
\* int(x) for x >= 0: truncation
FTrunc(x) ==
  IF x.e >= 0 THEN BigToInt(x.m) * 2^x.e
  ELSE IF -x.e > MantBits THEN 0
  ELSE BigToInt(BigShiftRight(x.m, -x.e))

\* faulty variant: int(refresh_rate / freq), the round() left out
calculate_cycle_params_trunc(refresh_rate, freq, k) ==
  LET frames_per_cycle == FTrunc(FDiv(refresh_rate, freq))
      on_frames == FRound(FloatOfDyadic(frames_per_cycle * k, DutyBits))
  IN  <<frames_per_cycle, Max(1, Min(on_frames, frames_per_cycle - 1))>>

\* faulty variant: the clamp of line 21 left out
calculate_cycle_params_unclamped(refresh_rate, freq, k) ==
  LET frames_per_cycle == FRound(FDiv(refresh_rate, freq))
      on_frames == FRound(FloatOfDyadic(frames_per_cycle * k, DutyBits))
  IN  <<frames_per_cycle, on_frames>>

calculate_cycle_params(refresh_rate, freq, k) ==
  LET frames_per_cycle == FRound(FDiv(refresh_rate, freq))
      on_frames == FRound(FloatOfDyadic(frames_per_cycle * k, DutyBits))
  IN  <<frames_per_cycle, Max(1, Min(on_frames, frames_per_cycle - 1))>>

(***************************************************************************)
(* flicker_core.generate_positions, for n_stim >= 1.  A coordinate is      *)
(* [sgn |-> -1 | 0 | 1, mag |-> binary64 magnitude].                       *)
(***************************************************************************)
\* math.ceil(math.sqrt(n)): sqrt is correctly rounded, so below 2^52 it is a whole number
\* only for perfect squares
CeilSqrt(n) == CHOOSE c \in 0..n : c * c >= n /\ (c = 0 \/ (c - 1) * (c - 1) < n)

Zero == [sgn |-> 0, mag |-> [m |-> <<0, 0, 0, 0>>, e |-> 0]]

FloatOne == FloatOfInt(1)

\* 1.0 / (k - 1) if k > 1 else 0
Spacing(k) == IF k > 1 THEN [sgn |-> 1, mag |-> FDiv(FloatOne, FloatOfInt(k - 1))] ELSE Zero

\* (h2 / 2) * spacing, for a whole number h2: the half-integer h2 / 2 is exact
Coord(h2, spacing) ==
  IF h2 = 0 \/ spacing.sgn = 0 THEN Zero
  ELSE LET p == FMulInt(IF h2 < 0 THEN -h2 ELSE h2, spacing.mag)
       IN  [sgn |-> IF h2 < 0 THEN -1 ELSE 1, mag |-> [m |-> p.m, e |-> p.e - 1]]

\* for c in range(cols), from column c on; plist is the list positions so far
RECURSIVE InnerLoop(_, _, _, _, _, _, _, _)
InnerLoop(r, c, plist, n_stim, cols, rows, spacing_x, spacing_y) ==
  IF c = cols THEN plist
  ELSE IF Len(plist) = n_stim THEN plist
  ELSE LET x == Coord(2 * c - (cols - 1), spacing_x)
           y == Coord((rows - 1) - 2 * r, spacing_y)
       IN  InnerLoop(r, c + 1, Append(plist, <<x, y>>), n_stim, cols, rows, spacing_x, spacing_y)

\* for r in range(rows), from row r on
RECURSIVE OuterLoop(_, _, _, _, _, _, _)
OuterLoop(r, plist, n_stim, cols, rows, spacing_x, spacing_y) ==
  IF r = rows THEN plist
  ELSE OuterLoop(r + 1, InnerLoop(r, 0, plist, n_stim, cols, rows, spacing_x, spacing_y),
                 n_stim, cols, rows, spacing_x, spacing_y)

\* faulty variant: the length check and break of lines 33-34 left out
RECURSIVE FullGrid(_, _, _, _, _)
FullGrid(k, plist, cols, rows, spacings) ==
  IF k = rows * cols THEN plist
  ELSE FullGrid(k + 1,
                Append(plist, <<Coord(2 * (k % cols) - (cols - 1), spacings[1]),
                                Coord((rows - 1) - 2 * (k \div cols), spacings[2])>>),
                cols, rows, spacings)

generate_positions_nobreak(n_stim) ==
  LET cols == CeilSqrt(n_stim)
      rows == FCeil(FDiv(FloatOfInt(n_stim), FloatOfInt(cols)))
  IN  FullGrid(0, <<>>, cols, rows, <<Spacing(cols), Spacing(rows)>>)

generate_positions(n_stim) ==
  LET cols == CeilSqrt(n_stim)
      rows == FCeil(FDiv(FloatOfInt(n_stim), FloatOfInt(cols)))
  IN  OuterLoop(0, <<>>, n_stim, cols, rows, Spacing(cols), Spacing(rows))

(***************************************************************************)
(* flicker_core.generate_frame_pattern                                     *)
(***************************************************************************)
\* for frameN in range(n_frames), from frameN on
RECURSIVE FrameLoop(_, _, _, _, _)
FrameLoop(frameN, pattern, frames_per_cycle, on_frames, n_frames) ==
  IF frameN >= n_frames THEN pattern
  ELSE LET cycle_pos == frameN % frames_per_cycle
       IN  FrameLoop(frameN + 1, Append(pattern, IF cycle_pos < on_frames THEN 1 ELSE 0),
                     frames_per_cycle, on_frames, n_frames)

\* faulty variant: cycle_pos <= on_frames in line 44
RECURSIVE FrameLoopInclusive(_, _, _, _, _)
FrameLoopInclusive(frameN, pattern, frames_per_cycle, on_frames, n_frames) ==
  IF frameN >= n_frames THEN pattern
  ELSE LET cycle_pos == frameN % frames_per_cycle
       IN  FrameLoopInclusive(frameN + 1,
                              Append(pattern, IF cycle_pos <= on_frames THEN 1 ELSE 0),
                              frames_per_cycle, on_frames, n_frames)

generate_frame_pattern_inclusive(frames_per_cycle, on_frames, n_frames) ==
  FrameLoopInclusive(0, <<>>, frames_per_cycle, on_frames, n_frames)

\* n_frames is the parameter total_frames
generate_frame_pattern(frames_per_cycle, on_frames, n_frames) ==
  FrameLoop(0, <<>>, frames_per_cycle, on_frames, n_frames)

(***************************************************************************)
(* scipy.signal.max_len_seq, as flicker_core calls it: default taps, a     *)
(* register of all ones, one full period.  state is the register, seq the  *)
(* output so far, idx the position in the register (from 0).               *)
(***************************************************************************)
mls_taps == [b \in 2..7 |-> IF b = 2 THEN <<1>> ELSE IF b = 3 THEN <<2>>
                            ELSE IF b = 4 THEN <<3>> ELSE IF b = 5 THEN <<3>>
                            ELSE IF b = 6 THEN <<5>> ELSE <<6>>]

Xor(a, b) == (a + b) % 2

\* for ti in range(n_taps): feedback ^= state[(taps[ti] + idx) % nbits]
RECURSIVE TapLoop(_, _, _, _, _)
TapLoop(ti, feedback, taps, state, idx) ==
  IF ti > Len(taps) THEN feedback
  ELSE TapLoop(ti + 1, Xor(feedback, state[((taps[ti] + idx) % Len(state)) + 1]),
               taps, state, idx)

\* for i in range(length), from i on; reg is <<state, idx, seq>>
RECURSIVE MlsLoop(_, _, _, _)
MlsLoop(i, reg, taps, length) ==
  IF i = length THEN reg[3]
  ELSE LET state == reg[1]
           idx == reg[2]
           feedback == TapLoop(1, state[idx + 1], taps, state, idx)
       IN  MlsLoop(i + 1,
                   <<[state EXCEPT ![idx + 1] = feedback], (idx + 1) % Len(state),
                     Append(reg[3], state[idx + 1])>>,
                   taps, length)

max_len_seq(bits) ==
  MlsLoop(0, <<[b \in 1..bits |-> 1], 0, <<>>>>, mls_taps[bits], 2^bits - 1)

\* numpy.roll(a, shift) of a one-dimensional array: element i moves to (i + shift) mod len
Roll(a, shift) == [j \in 1..Len(a) |-> a[((j - 1 - shift) % Len(a)) + 1]]

(***************************************************************************)
(* flicker_core.calculate_m_sequences                                      *)
(***************************************************************************)
\* faulty variant: five bits instead of six
nbits_short == 6 - 1

nbits == 6

shift_step == 4

base_seq == max_len_seq(nbits)

\* for s in range(n_stim), from s on; plist is the list patterns so far
RECURSIVE ShiftLoop(_, _, _)
ShiftLoop(s, plist, n_stim) ==
  IF s >= n_stim THEN plist
  ELSE LET shift == s * shift_step
           shifted_seq == Roll(base_seq, shift)
       IN  ShiftLoop(s + 1, Append(plist, shifted_seq), n_stim)

calculate_m_sequences(n_stim) == Return(ShiftLoop(0, <<>>, n_stim))

(***************************************************************************)
(* State.  The settings of run_flicker_experiment_ssvep.py, its position   *)
(* and its module-level names; call and ret are a direct call of a         *)
(* function of flicker_core and what it returned.                          *)
(***************************************************************************)
VARIABLES
  REFRESH_RATE,          \* in units of 2^-RateBits Hz
  MIN_FRAMES_PER_CYCLE,
  N_STIM,
  DUTY_CYCLE,            \* in units of 2^-DutyBits; Unread until line 40 reads it
  DURATION_S,            \* Unread until line 51 reads it
  pc,                    \* the statement the script is about to run
  win,                   \* "none", "open" or "closed"
  error,                 \* message of the AssertionError that ended the script, or ""
  freqs,
  positions,
  cycles,
  total_frames,
  patterns,
  call,
  ret

settings == <<REFRESH_RATE, MIN_FRAMES_PER_CYCLE, N_STIM, DUTY_CYCLE, DURATION_S>>

script == <<pc, win, error, freqs, positions, cycles, total_frames, patterns>>

vars == <<settings, script, call, ret>>

\* a setting no statement has read yet: DUTY_CYCLE and DURATION_S are drawn where the
\* script first reads them, which gives the runs of drawing them at lines 7 and 9
Unread == -1

Rates == (-(2^RateBits))..(MaxRate * 2^RateBits)

MinFrames == (-1)..(MaxRate + 1)

Stims == (-1)..(MaxRate + 1)

Duties == 0..(2^DutyBits)

Durations == 0..MaxDuration

ScriptIdle ==
  /\ pc = "idle" /\ win = "none" /\ error = ""
  /\ freqs = <<>> /\ positions = <<>> /\ cycles = <<>> /\ total_frames = 0 /\ patterns = <<>>

SettingsIdle ==
  /\ REFRESH_RATE = 0 /\ MIN_FRAMES_PER_CYCLE = 0 /\ N_STIM = 0
  /\ DUTY_CYCLE = Unread /\ DURATION_S = Unread

(***************************************************************************)
(* run_flicker_experiment_ssvep.py                                         *)
(***************************************************************************)
InitSsvep ==
  /\ REFRESH_RATE \in Rates
  /\ MIN_FRAMES_PER_CYCLE \in MinFrames
  /\ N_STIM \in Stims
  /\ DUTY_CYCLE = Unread
  /\ DURATION_S = Unread
  /\ pc = "window" /\ win = "none" /\ error = ""
  /\ freqs = <<>> /\ positions = <<>> /\ cycles = <<>> /\ total_frames = 0 /\ patterns = <<>>
  /\ call = "none" /\ ret = "none"

\* lines 13-28: the logger, then the window
OpenWindow ==
  /\ pc = "window"
  /\ win' = "open"
  /\ pc' = "frequencies"
  /\ UNCHANGED <<settings, error, freqs, positions, cycles, total_frames, patterns, call, ret>>

\* line 31: an AssertionError of calculate_frequencies ends the script
CalculateFrequencies ==
  /\ pc = "frequencies"
  /\ LET res == calculate_frequencies(REFRESH_RATE, MIN_FRAMES_PER_CYCLE, N_STIM)
     IN  /\ error' = res.error
         /\ freqs' = res.value
         /\ pc' = IF res.error = "" THEN "positions" ELSE "aborted"
  /\ UNCHANGED <<settings, win, positions, cycles, total_frames, patterns, call, ret>>

rates == <<REFRESH_RATE, MIN_FRAMES_PER_CYCLE, N_STIM>>

\* line 35
GeneratePositions ==
  /\ pc = "positions"
  /\ positions' = generate_positions(N_STIM)
  /\ pc' = "cycles"
  /\ UNCHANGED <<settings, win, error, freqs, cycles, total_frames, patterns, call, ret>>

\* lines 38-47
CalculateCycles ==
  /\ pc = "cycles"
  /\ DUTY_CYCLE' \in Duties
  /\ cycles' = [i \in 1..Len(freqs) |->
                  calculate_cycle_params(Rate(REFRESH_RATE), freqs[i], DUTY_CYCLE')]
  /\ pc' = "patterns"
  /\ UNCHANGED <<rates, DURATION_S, win, error, freqs, positions, total_frames, patterns,
                 call, ret>>

\* int(REFRESH_RATE * DURATION_S): the product is exact
TotalFrames(r, d) == (r * d) \div 2^RateBits

\* lines 51-56
PreparePatterns ==
  /\ pc = "patterns"
  /\ DURATION_S' \in Durations
  /\ total_frames' = TotalFrames(REFRESH_RATE, DURATION_S')
  /\ patterns' = [i \in 1..Len(cycles) |->
                    generate_frame_pattern(cycles[i][1], cycles[i][2],
                                           TotalFrames(REFRESH_RATE, DURATION_S'))]
  /\ pc' = "flicker"
  /\ UNCHANGED <<rates, DUTY_CYCLE, win, error, freqs, positions, cycles, call, ret>>

\* lines 57-69: the frame loop reads patterns[frameN] and flips the window
Flicker ==
  /\ pc = "flicker"
  /\ win = "open"
  /\ \A i \in 1..Len(patterns) : Len(patterns[i]) = total_frames
  /\ pc' = "report"
  /\ UNCHANGED <<settings, win, error, freqs, positions, cycles, total_frames, patterns, call, ret>>

\* lines 71-88
Report ==
  /\ pc = "report"
  /\ win' = "closed"
  /\ pc' = "done"
  /\ UNCHANGED <<settings, error, freqs, positions, cycles, total_frames, patterns, call, ret>>

NextSsvep ==
  \/ OpenWindow
  \/ CalculateFrequencies
  \/ GeneratePositions
  \/ CalculateCycles
  \/ PreparePatterns
  \/ Flicker
  \/ Report

SpecSsvep == InitSsvep /\ [][NextSsvep]_vars

(***************************************************************************)
(* Properties of calculate_frequencies, calculate_cycle_params,            *)
(* generate_positions and the script, checked under SpecSsvep.             *)
(***************************************************************************)
\* calculate_frequencies has been called (line 31 has run)
Called == pc \notin {"window", "frequencies"}

\* ... and has just returned a list (freqs is not assigned again)
Returned == pc = "positions"

\* the cycle parameters have been computed (lines 38-47 have run)
CyclesDone == pc \in {"patterns", "flicker", "report", "done"}

\* ... just now (cycles is not assigned again)
CyclesReturned == pc = "patterns"

\* the frame patterns have been prepared (lines 51-56 have run)
PatternsDone == pc \in {"flicker", "report", "done"}

\* REFRESH_RATE is a whole number of Hz
WholeRate == REFRESH_RATE % 2^RateBits = 0

RateHz == REFRESH_RATE \div 2^RateBits

BigAbsDiff(a, b) == IF BigLess(a, b) THEN BigSub(b, a) ELSE BigSub(a, b)

\* f is a normalised binary64 value nearest to (r * 2^-RateBits) / d:
\* |f.m * d - r * 2^(-RateBits - f.e)| <= d / 2
NearestQuotient(f, r, d) ==
  /\ ~BigLess(f.m, BigPow2(MantBits - 1))
  /\ BigLess(f.m, BigPow2(MantBits))
  /\ -RateBits - f.e >= 0
  /\ LET diff == BigAbsDiff(BigMulSmall(f.m, d), BigShiftLeft(BigOfInt(r), -RateBits - f.e))
     IN  diff[2] = 0 /\ diff[3] = 0 /\ diff[4] = 0 /\ 2 * diff[1] <= d

\* |x - k| <= 2^-21 (below 1e-6) for a value x with x.e < -20 and a whole number k
WithinOf(x, k) == FRound([m |-> x.m, e |-> x.e + 20]) = k * 2^20

\* C2 as stated: for a whole refresh rate R the call returns exactly n_stim values, the
\* i-th being R / (m + i), strictly decreasing and pairwise distinct, and R divided by
\* each value is a whole number in m..R.
C2_AsStated ==
  (Returned /\ WholeRate) =>
    /\ Len(freqs) = N_STIM
    /\ \A i \in 1..Len(freqs) :
         /\ NearestQuotient(freqs[i], REFRESH_RATE, MIN_FRAMES_PER_CYCLE + i - 1)
         /\ FIsInteger(FDiv(Rate(REFRESH_RATE), freqs[i]))
         /\ FRound(FDiv(Rate(REFRESH_RATE), freqs[i])) \in MIN_FRAMES_PER_CYCLE..RateHz
    /\ \A i \in 1..(Len(freqs) - 1) : FLess(freqs[i + 1], freqs[i])
    /\ \A i, j \in 1..Len(freqs) : i # j => freqs[i] # freqs[j]

\* C2 amended: as C2, but R divided by the i-th value is within 2^-21 (below 1e-6) of the
\* whole number m + i, which lies in m..R; in binary64 the quotient itself need not be
\* whole (9 / (9 / 7) is 6.999999999999999).
C2_Frequencies ==
  (Returned /\ WholeRate) =>
    /\ Len(freqs) = N_STIM
    /\ \A i \in 1..Len(freqs) :
         /\ NearestQuotient(freqs[i], REFRESH_RATE, MIN_FRAMES_PER_CYCLE + i - 1)
         /\ WithinOf(FDiv(Rate(REFRESH_RATE), freqs[i]), MIN_FRAMES_PER_CYCLE + i - 1)
         /\ MIN_FRAMES_PER_CYCLE + i - 1 \in MIN_FRAMES_PER_CYCLE..RateHz
    /\ \A i \in 1..(Len(freqs) - 1) : FLess(freqs[i + 1], freqs[i])
    /\ \A i, j \in 1..Len(freqs) : i # j => freqs[i] # freqs[j]

\* the call returned frequencies for 9 Hz that include 9 / 7
C2_Witness ==
  /\ Returned /\ WholeRate /\ RateHz = 9
  /\ MIN_FRAMES_PER_CYCLE = 3 /\ N_STIM = 7 /\ Len(freqs) = 7
  /\ ~FIsInteger(FDiv(Rate(REFRESH_RATE), freqs[5]))

\* the precondition violated first, in the order of the checks
FirstViolated ==
  IF REFRESH_RATE <= 0 THEN "refresh_rate must be bigger than zero"
  ELSE IF MIN_FRAMES_PER_CYCLE <= 0 THEN "min_frames_per_cycle must be bigger than zero"
  ELSE IF N_STIM <= 0 THEN "n_stim must be bigger than zero"
  ELSE IF REFRESH_RATE + 2^RateBits < (N_STIM + MIN_FRAMES_PER_CYCLE) * 2^RateBits
       THEN "Too many stimuli provided"
  ELSE ""

\* C3: calculate_frequencies fails exactly when refresh_rate <= 0, min_frames_per_cycle <= 0,
\* n_stim <= 0 or refresh_rate - min_frames_per_cycle + 1 < n_stim; the failure names the
\* first violated precondition and no list is returned; a returned list is never shortened.
C3_FailsExactly ==
  Called =>
    /\ (pc = "aborted") <=> (FirstViolated # "")
    /\ error = FirstViolated
    /\ (pc = "aborted") => freqs = <<>>
    /\ (pc # "aborted") => Len(freqs) = N_STIM

\* the call failed on the range check at the boundary: one stimulus more than fits
C3_Witness ==
  /\ pc = "aborted" /\ error = "Too many stimuli provided" /\ freqs = <<>>
  /\ REFRESH_RATE > 0 /\ MIN_FRAMES_PER_CYCLE = 3
  /\ REFRESH_RATE + 2^RateBits = (N_STIM - 1 + MIN_FRAMES_PER_CYCLE) * 2^RateBits

\* C1 as stated: every cycle computed for a frequency the selector returned has
\* 1 <= on_frames <= frames_per_cycle - 1.
C1_AsStated ==
  CyclesDone =>
    \A i \in 1..Len(cycles) : 1 <= cycles[i][2] /\ cycles[i][2] <= cycles[i][1] - 1

\* C5: for a whole refresh rate R, the cycle computed for R / d has frames_per_cycle = d,
\* and R / frames_per_cycle is the requested frequency again, for every duty cycle.
C5_RoundTrip ==
  (CyclesReturned /\ WholeRate) =>
    /\ Len(cycles) = Len(freqs)
    /\ \A i \in 1..Len(cycles) :
         /\ cycles[i][1] = MIN_FRAMES_PER_CYCLE + i - 1
         /\ FDiv(Rate(REFRESH_RATE), FloatOfInt(cycles[i][1])) = freqs[i]

\* cycles were computed for every divisor 1..9 of 9 Hz, 9 / 7 among them
C5_Witness ==
  /\ CyclesReturned /\ WholeRate /\ RateHz = 9
  /\ MIN_FRAMES_PER_CYCLE = 1 /\ N_STIM = 9 /\ Len(cycles) = 9
  /\ cycles[7][1] = 7
  /\ ~FIsInteger(FDiv(Rate(REFRESH_RATE), freqs[7]))

\* C9 as stated: no run opens the window and then aborts on a parameter error.
C9_AsStated == (pc = "aborted") => (win = "none")

\* C10: in the script, two different stimuli get different frame patterns whenever
\* total_frames exceeds the larger of their frames_per_cycle: at some frame one is ON
\* and the other OFF.
C10_DistinctPatterns ==
  PatternsDone =>
    \A i, j \in 1..Len(patterns) :
      (i < j /\ total_frames > Max(cycles[i][1], cycles[j][1])) =>
        \E f \in 1..total_frames : patterns[i][f] # patterns[j][f]

\* patterns were prepared for several stimuli with a duty cycle that the clamp changes,
\* and the session is longer than the longest cycle
C10_Witness ==
  /\ PatternsDone /\ Len(patterns) >= 3 /\ DUTY_CYCLE = 0
  /\ \A i \in 1..Len(cycles) : total_frames > cycles[i][1] /\ cycles[i][2] = 1

\* ceil(sqrt(n)) and ceil(n / cols) in whole numbers
ColsOf(n) == CHOOSE c \in 1..n : c * c >= n /\ (c - 1) * (c - 1) < n

RowsOf(n) == (n + ColsOf(n) - 1) \div ColsOf(n)

\* the position the formula of the claim gives for index k (from 0)
PositionAt(k, n, spacings) ==
  LET cols == ColsOf(n)
      rows == RowsOf(n)
      r == k \div cols
      c == k % cols
  IN  <<Coord(2 * c - (cols - 1), spacings[1]), Coord((rows - 1) - 2 * r, spacings[2])>>

\* spacing_x and spacing_y: 1 / (cols - 1) and 1 / (rows - 1), 0 for a single column or row
SpacingsOf(n) == <<Spacing(ColsOf(n)), Spacing(RowsOf(n))>>

Negated(v) == [v EXCEPT !.sgn = -v.sgn]

\* generate_positions has just returned (positions is not assigned again)
PositionsDone == pc = "cycles"

\* C8: generate_positions(n_stim) returns exactly n_stim pairwise distinct positions in
\* row-major order on the grid of ceil(sqrt(n_stim)) columns, the k-th being
\* ((c - (cols-1)/2) * spacing_x, ((rows-1)/2 - r) * spacing_y) for r = k div cols,
\* c = k mod cols; a full grid is symmetric about both axes, so centred at the origin.
C8_Positions ==
  PositionsDone =>
    /\ Len(positions) = N_STIM
    /\ LET spacings == SpacingsOf(N_STIM)
       IN  positions = [k \in 1..N_STIM |-> PositionAt(k - 1, N_STIM, spacings)]
    /\ \A k, l \in 1..Len(positions) : k # l => positions[k] # positions[l]
    /\ (N_STIM = RowsOf(N_STIM) * ColsOf(N_STIM)) =>
         \A k \in 1..Len(positions) :
           /\ \E l \in 1..Len(positions) :
                positions[l] = <<Negated(positions[k][1]), positions[k][2]>>
           /\ \E l \in 1..Len(positions) :
                positions[l] = <<positions[k][1], Negated(positions[k][2])>>

\* positions were generated for the full 3 x 3 grid of nine stimuli
C8_Witness ==
  /\ PositionsDone /\ N_STIM = 9 /\ Len(positions) = 9
  /\ ColsOf(N_STIM) = 3 /\ RowsOf(N_STIM) = 3
  /\ positions[5] = <<Zero, Zero>>

(***************************************************************************)
(* A direct call of generate_frame_pattern: call holds the arguments       *)
(* <<frames_per_cycle, on_frames, total_frames>>, ret the pattern.         *)
(***************************************************************************)
PatternCalls ==
  {a \in (1..MaxCycle) \X (0..MaxCycle) \X (0..MaxTotal) : a[2] <= a[1]}

InitPattern ==
  /\ SettingsIdle
  /\ win = "none" /\ error = ""
  /\ freqs = <<>> /\ positions = <<>> /\ cycles = <<>> /\ total_frames = 0 /\ patterns = <<>>
  /\ pc = "call"
  /\ call \in PatternCalls
  /\ ret = <<>>

GenerateFramePattern ==
  /\ pc = "call"
  /\ ret' = generate_frame_pattern(call[1], call[2], call[3])
  /\ pc' = "returned"
  /\ UNCHANGED <<settings, win, error, freqs, positions, cycles, total_frames, patterns, call>>

NextPattern == GenerateFramePattern

SpecPattern == InitPattern /\ [][NextPattern]_vars

\* n copies of block, one after the other
RECURSIVE Repeated(_, _)
Repeated(block, n) == IF n = 0 THEN <<>> ELSE block \o Repeated(block, n - 1)

\* on ones followed by len - on zeros
OnOffCycle(len, on) == [k \in 1..len |-> IF k <= on THEN 1 ELSE 0]

\* C4: generate_frame_pattern(frames_per_cycle, on_frames, total_frames) returns exactly
\* total_frames values in {0,1}, element i being 1 iff (i mod frames_per_cycle) < on_frames;
\* it is the first total_frames elements of the repetition of on_frames ones and
\* frames_per_cycle - on_frames zeros, and repeats with period frames_per_cycle.
C4_Pattern ==
  (pc = "returned") =>
    /\ Len(ret) = call[3]
    /\ \A i \in 1..Len(ret) :
         /\ ret[i] \in {0, 1}
         /\ (ret[i] = 1) <=> (((i - 1) % call[1]) < call[2])
    /\ ret = SubSeq(Repeated(OnOffCycle(call[1], call[2]), (call[3] \div call[1]) + 1),
                    1, call[3])
    /\ \A i \in 1..Len(ret) : (i + call[1] <= Len(ret)) => ret[i] = ret[i + call[1]]

\* a pattern was returned whose length is no multiple of the cycle: the last period is cut
C4_Witness ==
  /\ pc = "returned" /\ call = <<3, 1, 7>>
  /\ ret = <<1, 0, 0, 1, 0, 0, 1>>

(***************************************************************************)
(* A direct call of calculate_m_sequences: call holds <<n_stim>>, ret what *)
(* the call raised or returned.                                            *)
(***************************************************************************)
MseqCalls == {<<k>> : k \in 0..MaxStim}

InitMseq ==
  /\ SettingsIdle
  /\ win = "none" /\ error = ""
  /\ freqs = <<>> /\ positions = <<>> /\ cycles = <<>> /\ total_frames = 0 /\ patterns = <<>>
  /\ pc = "call"
  /\ call \in MseqCalls
  /\ ret = Return(<<>>)

CalculateMSequences ==
  /\ pc = "call"
  /\ ret' = calculate_m_sequences(call[1])
  /\ pc' = "returned"
  /\ UNCHANGED <<settings, win, error, freqs, positions, cycles, total_frames, patterns, call>>

NextMseq == CalculateMSequences

SpecMseq == InitMseq /\ [][NextMseq]_vars

\* the rotation of stimulus s (from 0), modulo the length of the sequence
Rotation(s) == (s * shift_step) % (2^nbits - 1)

\* C6 as stated: stimulus s gets the base sequence rotated by (s * shift_step) mod 63, and
\* either the rotations of all stimuli are pairwise distinct modulo 63 or the call fails
\* with SequenceCollision; no two stimuli of a returned set share a rotation.
C6_AsStated ==
  (pc = "returned") =>
    IF ret.error = ""
    THEN /\ Len(ret.value) = call[1]
         /\ \A s \in 1..Len(ret.value) : ret.value[s] = Roll(base_seq, Rotation(s - 1))
         /\ \A s, t \in 1..Len(ret.value) :
              s # t => (Rotation(s - 1) # Rotation(t - 1) /\ ret.value[s] # ret.value[t])
    ELSE /\ ret.error = "SequenceCollision"
         /\ \E s, t \in 0..(call[1] - 1) : s # t /\ Rotation(s) = Rotation(t)

\* the 6 bits of sequence q read cyclically from position i (from 0)
Window(q, i) == [k \in 1..6 |-> q[((i + k - 1) % Len(q)) + 1]]

\* C7: the base sequence has length exactly 63, and read cyclically its 63 windows of
\* 6 consecutive bits are pairwise distinct and none is all-zero.
C7_MaximalLength ==
  (pc = "returned" /\ call[1] >= 1) =>
    LET q == ret.value[1]
    IN  /\ Len(q) = 63
        /\ \A i \in 1..Len(q) : q[i] \in {0, 1}
        /\ \A i \in 0..(Len(q) - 1) : Window(q, i) # <<0, 0, 0, 0, 0, 0>>
        /\ \A i, j \in 0..(Len(q) - 1) : i # j => Window(q, i) # Window(q, j)

\* sequences were returned, the first being the base sequence itself, which starts with
\* the six ones of the initial register
C7_Witness ==
  /\ pc = "returned" /\ call[1] >= 1 /\ Len(ret.value) = call[1]
  /\ ret.value[1] = base_seq
  /\ Window(ret.value[1], 0) = <<1, 1, 1, 1, 1, 1>>
====
